---------------------------- MODULE Spec2Model ----------------------------
(***************************************************************************)
(* Voice-detection service: the POST /api/voice-detection handler          *)
(* (src/main.py), the audio decoder and feature extractor (src/utils.py)   *)
(* and the scorer with its explanation generator (src/model.py).           *)
(*                                                                         *)
(* Units.  Scores, confidences and the zero-crossing rate are integers in  *)
(* thousandths (0.85 is 850, 0.06 is 60).  Frequencies are integers in Hz. *)
(* The pitch standard deviation is carried in tenths of a Hz, truncated    *)
(* (65.0 Hz is 650); every threshold it is compared with is a whole number *)
(* of Hz, so the truncation never changes a comparison.                    *)
(*                                                                         *)
(* A waveform is abstracted to what the code reads from it: its sample     *)
(* rate, its pitch track (the strongest piptrack bin of each frame), its   *)
(* mean spectral centroid, its mean zero-crossing rate, and which library  *)
(* call, if any, raises on it.  The values are those of the mono, 16 kHz   *)
(* signal the scorer receives.                                             *)
(***************************************************************************)
EXTENDS Integers, Sequences, FiniteSets

VARIABLES
    pc,          \* "idle" | "responded": position of the request in flight
    request,     \* the request being answered (NoRequest when idle)
    response,    \* the HTTP answer of detect_voice
    log,         \* what the handler ran and the DEBUG lines it printed
    classifier,  \* the randomly initialised head of voice_detector (its seed)
    ref          \* an earlier (waveform, result) pair kept for comparison

vars == <<pc, request, response, log, classifier, ref>>

---------------------------------------------------------------------------
(* Bounds of the model. *)

\* Largest number of in-band (voiced) frames of a pitch track.
MaxVoiced == 12

\* Number of distinct random initialisations of the classifier head.
NumSeeds == 2

---------------------------------------------------------------------------
(* Program constants. *)

TARGET_SR == 16000          \* utils.py: resample target
MIN_LENGTH == 100           \* main.py: audioBase64 min_length
PITCH_LO == 50              \* model.py: voice band, lower edge (Hz)
PITCH_HI == 500             \* model.py: voice band, upper edge (Hz)
MIN_PITCH_SAMPLES == 10     \* model.py: len(pitch_values) > 10
CENTROID_LO == 2500         \* model.py: centroid window (Hz)
CENTROID_HI == 3800
ZCR_LO == 60                \* model.py: zcr window 0.06
ZCR_HI == 140               \* model.py: zcr window 0.14
BONUS == 50                 \* model.py: adjustments += 0.05
NEUTRAL == 500              \* model.py: return 0.5 on error
THRESHOLD == 500            \* model.py: enhanced_score > 0.5

API_KEY == "secret"         \* main.py: the configured key

---------------------------------------------------------------------------
(* Arithmetic helpers. *)

Min(a, b) == IF a < b THEN a ELSE b
Max(a, b) == IF a > b THEN a ELSE b

RECURSIVE SumSeq(_)
SumSeq(s) == IF s = <<>> THEN 0 ELSE Head(s) + SumSeq(Tail(s))

RECURSIVE SumSq(_)
SumSq(s) == IF s = <<>> THEN 0 ELSE Head(s) * Head(s) + SumSq(Tail(s))

\* Largest r in lo..hi with r*r <= x (bisection).
RECURSIVE ISqrtIn(_, _, _)
ISqrtIn(x, lo, hi) ==
    IF lo >= hi THEN lo
    ELSE LET mid == (lo + hi + 1) \div 2
         IN  IF mid * mid <= x THEN ISqrtIn(x, mid, hi)
                               ELSE ISqrtIn(x, lo, mid - 1)

ISqrt(x) == ISqrtIn(x, 0, 46340)

\* Len(s)^2 times the population variance of s.
VarNum(s) == Len(s) * SumSq(s) - SumSeq(s) * SumSeq(s)

\* np.std(s) (population standard deviation), in tenths, truncated.
NpStd(s) == ISqrt(100 * VarNum(s)) \div Len(s)

\* round(x, 2) on thousandths: to the nearest multiple of 10, ties to even.
Round2(x) ==
    LET q == x \div 10
        r == x % 10
    IN  IF r < 5 THEN 10 * q
        ELSE IF r > 5 THEN 10 * (q + 1)
        ELSE IF q % 2 = 0 THEN 10 * q ELSE 10 * (q + 1)

\* f"{confidence*100:.0f}": the confidence as a whole percentage.
Percent(x) == Round2(x) \div 10

---------------------------------------------------------------------------
(* Inputs: waveforms, payloads and requests. *)

\* Numbers of voiced frames tried: a silent clip, and clips around the
\* minimum the scorer asks for.
VoicedCounts == {0} \cup ((MIN_PITCH_SAMPLES - 1) .. MaxVoiced)

\* The voiced frames alternate between 100 Hz and one of these.
PitchHighs == {100, 220, 230, 270, 310, 350}

\* A pitch track: one frame on each edge of the voice band, and n voiced
\* frames alternating between 100 Hz and hi.
MkTrack(n, hi) ==
    <<PITCH_LO>> \o [i \in 1 .. n |-> IF i % 2 = 1 THEN 100 ELSE hi]
                 \o <<PITCH_HI>>

Tracks == {MkTrack(n, hi) : n \in VoicedCounts, hi \in PitchHighs}

SampleRates == {TARGET_SR, 44100}
Centroids == {1500, CENTROID_LO, 3000, CENTROID_HI}
Zcrs == {ZCR_LO, 100, ZCR_HI, 200}

\* Which library call raises on the waveform.
Faults == {"extract_value", "extract_other", "embedding", "heuristics",
           "explanation", "heuristics_explanation"}

MkWave(sr, track, centroid, zcr, fault) ==
    [sr |-> sr, track |-> track, centroid |-> centroid, zcr |-> zcr,
     fault |-> fault]

NoWave == MkWave(0, <<>>, 0, 0, "none")

SoundWaves ==
    {MkWave(sr, t, c, z, "none") :
        sr \in SampleRates, t \in Tracks, c \in Centroids, z \in Zcrs}

FaultyWaves ==
    {MkWave(TARGET_SR, MkTrack(MaxVoiced, hi), 3000, 100, f) :
        hi \in PitchHighs, f \in Faults}

Waves == SoundWaves \cup FaultyWaves

\* What audioBase64 holds: broken base64, base64 of bytes that are no audio
\* container, or base64 of an audio file.
Payloads ==
    {[kind |-> "malformed_b64", wave |-> NoWave],
     [kind |-> "not_audio", wave |-> NoWave]}
    \cup {[kind |-> "audio", wave |-> w] : w \in Waves}

\* Payloads sent with requests that the framework rejects.
ProbePayloads ==
    {p \in Payloads :
        \/ p.kind # "audio"
        \/ p.wave = MkWave(TARGET_SR, MkTrack(MaxVoiced, 100), 3000, 100, "none")}

\* The x-api-key header: absent, a wrong key, the configured key.
Keys == {"absent", "wrong", API_KEY}

\* A request: the header, the length of audioBase64 and what it holds
\* (language and audioFormat are taken to be valid).
Requests ==
    {[key |-> API_KEY, b64len |-> MIN_LENGTH, payload |-> p] : p \in Payloads}
    \cup {[key |-> k, b64len |-> n, payload |-> p] :
            k \in Keys, n \in {MIN_LENGTH - 1, MIN_LENGTH}, p \in ProbePayloads}

NoRequest == [key |-> "absent", b64len |-> 0,
              payload |-> [kind |-> "none", wave |-> NoWave]]

Seeds == 1 .. NumSeeds

---------------------------------------------------------------------------
(* src/utils.py *)

\* What base64.b64decode or sf.read raises on the payload, "none" if neither.
DecodeFailure(payload) ==
    CASE payload.kind = "malformed_b64" -> "binascii.Error"
      [] payload.kind = "not_audio"     -> "LibsndfileError"
      [] OTHER                          -> "none"

\* A decoder that lets the library's exception through.
decode_base64_audio_unwrapped(payload) ==
    IF DecodeFailure(payload) # "none"
    THEN [raised |-> DecodeFailure(payload), wave |-> NoWave]
    ELSE [raised |-> "none", wave |-> payload.wave]

\* decode_base64_audio: whatever is raised inside is re-raised as ValueError;
\* otherwise the mono waveform and its sample rate are returned.
decode_base64_audio(payload) ==
    IF DecodeFailure(payload) # "none"
    THEN [raised |-> "ValueError", wave |-> NoWave]
    ELSE [raised |-> "none", wave |-> payload.wave]

\* extract_audio_features: resample to 16 kHz unless already there, compute
\* the features; nothing that a library call raises is caught here.
extract_audio_features(wave) ==
    [raised    |-> CASE wave.fault = "extract_value" -> "ParameterError"
                     [] wave.fault = "extract_other" -> "RuntimeError"
                     [] OTHER                        -> "none",
     resampled |-> wave.sr # TARGET_SR,
     features  |-> [spectral_centroid |-> wave.centroid,
                    zero_crossing_rate |-> wave.zcr],
     wave      |-> [wave EXCEPT !.sr = TARGET_SR]]

---------------------------------------------------------------------------
(* src/model.py *)

\* classifier(pooled).item(): the sigmoid output of the untrained head, a
\* value strictly between 0 and 1 fixed by the initial weights and the clip.
RawScore(seed, wave) ==
    1 + ((seed * 389 + Len(wave.track) * 17 + wave.centroid + wave.zcr) % 999)

\* if 50 < pitch < 500
InBand(pitch) == PITCH_LO < pitch /\ pitch < PITCH_HI

\* pitch_values: the frames of the track that pass the filter.
PitchValues(track) == SelectSeq(track, InBand)

\* The rule with "10 or more" in place of "more than 10".
PitchStd_ge(track) ==
    IF Len(PitchValues(track)) >= MIN_PITCH_SAMPLES
    THEN NpStd(PitchValues(track))
    ELSE 0

\* pitch_std = np.std(pitch_values) if len(pitch_values) > 10 else 0
PitchStd(track) ==
    IF Len(PitchValues(track)) > MIN_PITCH_SAMPLES
    THEN NpStd(PitchValues(track))
    ELSE 0

\* A step function that puts a missing pitch track in the weakest AI band.
BaseScore_zero_lowest(pitch_std) ==
    IF pitch_std = 0 THEN 550
    ELSE IF pitch_std < 600 THEN 850
    ELSE IF pitch_std < 800 THEN 700
    ELSE IF pitch_std < 1000 THEN 550
    ELSE IF pitch_std < 1200 THEN 450
    ELSE 300

\* The step function from pitch_std (tenths of a Hz) to ai_score.
BaseScore(pitch_std) ==
    IF pitch_std < 600 THEN 850
    ELSE IF pitch_std < 800 THEN 700
    ELSE IF pitch_std < 1000 THEN 550
    ELSE IF pitch_std < 1200 THEN 450
    ELSE 300

\* The windows with their edges included.
Adjustments_inclusive(spectral_centroid, zcr) ==
    (IF CENTROID_LO <= spectral_centroid /\ spectral_centroid <= CENTROID_HI
     THEN BONUS ELSE 0)
    + (IF ZCR_LO <= zcr /\ zcr <= ZCR_HI THEN BONUS ELSE 0)

\* adjustments: one bonus per indicator inside its window.
Adjustments(spectral_centroid, zcr) ==
    (IF CENTROID_LO < spectral_centroid /\ spectral_centroid < CENTROID_HI
     THEN BONUS ELSE 0)
    + (IF ZCR_LO < zcr /\ zcr < ZCR_HI THEN BONUS ELSE 0)

\* max(0.0, min(1.0, final_score))
Clamp(x) == Max(0, Min(1000, x))

\* The try block of _apply_heuristics: pitch_std, ai_score, adjustments and
\* the clamped final score, as the DEBUG lines print them.
HeuristicScore(wave) ==
    LET pitch_std == PitchStd(wave.track)
        ai_score == BaseScore(pitch_std)
        adjustments == Adjustments(wave.centroid, wave.zcr)
    IN  [error |-> FALSE, pitch_std |-> pitch_std,
         ai_score |-> ai_score, adjustments |-> adjustments,
         final_score |-> Clamp(ai_score + adjustments)]

\* A scorer whose except clause falls back to the head's raw score.
apply_heuristics_raw_fallback(wave, raw_score) ==
    IF wave.fault \in {"heuristics", "heuristics_explanation"}
    THEN [error |-> TRUE, pitch_std |-> -1, ai_score |-> -1,
          adjustments |-> -1, final_score |-> raw_score]
    ELSE HeuristicScore(wave)

\* A scorer that blends the head's raw score into the final score.
apply_heuristics_blend(wave, raw_score) ==
    IF wave.fault \in {"heuristics", "heuristics_explanation"}
    THEN [error |-> TRUE, pitch_std |-> -1, ai_score |-> -1,
          adjustments |-> -1, final_score |-> NEUTRAL]
    ELSE [HeuristicScore(wave) EXCEPT
            !.final_score =
                Clamp((7 * (HeuristicScore(wave).ai_score
                            + HeuristicScore(wave).adjustments)
                       + 3 * raw_score) \div 10)]

\* _apply_heuristics: raw_score is never read; an exception raised by the
\* feature computation is caught and the neutral score returned.
apply_heuristics(wave, raw_score) ==
    IF wave.fault \in {"heuristics", "heuristics_explanation"}
    THEN [error |-> TRUE, pitch_std |-> -1, ai_score |-> -1,
          adjustments |-> -1, final_score |-> NEUTRAL]
    ELSE HeuristicScore(wave)

NoExplanation == [tier |-> "none", pitch |-> -1, centroid |-> -1, pct |-> -1]

\* _generate_explanation: the template chosen and the numbers printed in
\* it (-1 for a number the template does not print).
generate_explanation(is_ai, confidence, wave) ==
    IF wave.fault \in {"explanation", "heuristics_explanation"}
    THEN [tier |-> IF is_ai THEN "fallback_ai" ELSE "fallback_human",
          pitch |-> -1, centroid |-> -1, pct |-> Percent(confidence)]
    ELSE LET pitch_std == PitchStd(wave.track)
         IN  IF is_ai
             THEN IF confidence > 750
                  THEN [tier |-> "strong_ai", pitch |-> pitch_std,
                        centroid |-> wave.centroid, pct |-> Percent(confidence)]
                  ELSE IF confidence > 550
                  THEN [tier |-> "moderate_ai", pitch |-> pitch_std,
                        centroid |-> wave.centroid, pct |-> Percent(confidence)]
                  ELSE [tier |-> "slight_ai", pitch |-> pitch_std,
                        centroid |-> -1, pct |-> Percent(confidence)]
             ELSE IF confidence > 650
                  THEN [tier |-> "strong_human", pitch |-> pitch_std,
                        centroid |-> -1, pct |-> Percent(confidence)]
                  ELSE IF confidence > 450
                  THEN [tier |-> "moderate_human", pitch |-> pitch_std,
                        centroid |-> -1, pct |-> Percent(confidence)]
                  ELSE [tier |-> "slight_human", pitch |-> pitch_std,
                        centroid |-> -1, pct |-> Percent(confidence)]

\* The comparison with the threshold included.
IsAiGenerated_ge(enhanced_score) == enhanced_score >= THRESHOLD

\* is_ai_generated = enhanced_score > 0.5
IsAiGenerated(enhanced_score) == enhanced_score > THRESHOLD

\* The HUMAN branch with the subtraction the wrong way round.
FinalConfidence_swapped(is_ai_generated, enhanced_score) ==
    IF is_ai_generated THEN enhanced_score ELSE enhanced_score - 1000

\* final_confidence = enhanced_score if is_ai_generated else (1 - enhanced_score)
FinalConfidence(is_ai_generated, enhanced_score) ==
    IF is_ai_generated THEN enhanced_score ELSE 1000 - enhanced_score

\* predict on the shared voice_detector: the embedding and the head's raw
\* score, the heuristics, the classification, the confidence and the
\* explanation.  The wav2vec2 pass is outside every try block.
predict(seed, wave) ==
    IF wave.fault = "embedding"
    THEN [raised |-> "RuntimeError", classification |-> "none",
          confidence |-> -1, explanation |-> NoExplanation,
          heuristics |-> [error |-> FALSE, pitch_std |-> -1, ai_score |-> -1,
                          adjustments |-> -1, final_score |-> -1]]
    ELSE LET raw_score == RawScore(seed, wave)
             h == apply_heuristics(wave, raw_score)
             is_ai == IsAiGenerated(h.final_score)
             final_confidence == FinalConfidence(is_ai, h.final_score)
         IN  [raised |-> "none",
              classification |-> IF is_ai THEN "AI_GENERATED" ELSE "HUMAN",
              confidence |-> Round2(final_confidence),
              explanation |-> generate_explanation(is_ai, final_confidence, wave),
              heuristics |-> h]

---------------------------------------------------------------------------
(* src/main.py *)

\* verify_api_key with its x_api_key: str = Header(...) parameter: a request
\* without the header fails the framework's validation of the required
\* parameter (422) before the body of the function runs; a header that
\* differs from API_KEY raises HTTPException(401); 0 lets the request pass.
verify_api_key(x_api_key) ==
    IF x_api_key = "absent" THEN 422
    ELSE IF x_api_key # API_KEY THEN 401
    ELSE 0

\* VoiceDetectionRequest: audioBase64 has min_length 100.
RequestValid(r) == r.b64len >= MIN_LENGTH

\* VoiceDetectionResponse: confidenceScore has ge=0.0, le=1.0.
ResponseValid(confidence) == 0 <= confidence /\ confidence <= 1000

\* The except clauses of detect_voice: ValueError and its subclasses give
\* 400, every other Exception 500.
StatusOfException(exc) ==
    IF exc \in {"ValueError", "binascii.Error", "ParameterError",
                "ValidationError"}
    THEN 400 ELSE 500

NoHeuristics == [error |-> FALSE, pitch_std |-> -1, ai_score |-> -1,
                 adjustments |-> -1, final_score |-> -1]

NoLog == [stages |-> {}, heuristics |-> NoHeuristics]

ErrorResponse(status) ==
    [status |-> status, classification |-> "none", confidenceScore |-> -1,
     explanation |-> NoExplanation]

NoResponse == ErrorResponse(0)

\* The body of detect_voice, after the framework has accepted the request.
Endpoint(r, seed) ==
    LET d == decode_base64_audio(r.payload)
    IN  IF d.raised # "none"
        THEN [response |-> ErrorResponse(StatusOfException(d.raised)),
              log |-> [NoLog EXCEPT !.stages = {"decode"}]]
        ELSE
        LET e == extract_audio_features(d.wave)
            ran == {"decode", "extract"}
                   \cup (IF e.resampled THEN {"resample"} ELSE {})
        IN  IF e.raised # "none"
            THEN [response |-> ErrorResponse(StatusOfException(e.raised)),
                  log |-> [NoLog EXCEPT !.stages = ran]]
            ELSE
            LET p == predict(seed, e.wave)
            IN  IF p.raised # "none"
                THEN [response |-> ErrorResponse(StatusOfException(p.raised)),
                      log |-> [NoLog EXCEPT !.stages = ran \cup {"embed"}]]
                ELSE
                LET done == [stages |-> ran \cup {"embed", "heuristics", "explain"},
                             heuristics |-> p.heuristics]
                IN  IF ~ResponseValid(p.confidence)
                    THEN [response |->
                              ErrorResponse(StatusOfException("ValidationError")),
                          log |-> done]
                    ELSE [response |->
                              [status |-> 200,
                               classification |-> p.classification,
                               confidenceScore |-> p.confidence,
                               explanation |-> p.explanation],
                          log |-> done]

\* What POST /api/voice-detection answers to request r: the dependency
\* verify_api_key is solved first, then the body is validated, then the
\* function runs.
Answer(r, seed) ==
    IF verify_api_key(r.key) # 0
    THEN [response |-> ErrorResponse(verify_api_key(r.key)), log |-> NoLog]
    ELSE IF ~RequestValid(r)
    THEN [response |-> ErrorResponse(422), log |-> NoLog]
    ELSE Endpoint(r, seed)

---------------------------------------------------------------------------
(* The state machine. *)

\* The waveform and sample rate that predict receives for request r.
PredictInput(r) == [r.payload.wave EXCEPT !.sr = TARGET_SR]

NoRef == [set |-> FALSE, wave |-> NoWave, seed |-> 0,
          result |-> ErrorResponse(0)]

\* The clips whose results are kept for comparison.
WatchedWaves ==
    {MkWave(TARGET_SR, MkTrack(MaxVoiced, hi), 3000, 100, f) :
        hi \in PitchHighs, f \in {"none", "heuristics", "explanation"}}

\* voice_detector = VoiceDetectionModel(): the head is initialised at random
\* when the module is loaded; no request is in flight.
Init ==
    /\ pc = "idle"
    /\ request = NoRequest
    /\ response = NoResponse
    /\ log = NoLog
    /\ classifier \in Seeds
    /\ ref = NoRef

\* A request arrives and detect_voice answers it.  The handler never awaits,
\* so it runs from start to end without another request in between.
detect_voice(r) ==
    /\ pc = "idle"
    /\ pc' = "responded"
    /\ request' = r
    /\ response' = Answer(r, classifier).response
    /\ log' = Answer(r, classifier).log
    /\ UNCHANGED <<classifier, ref>>

\* The caller keeps the result of a success response for later comparison.
Observe ==
    /\ pc = "responded"
    /\ response.status = 200
    /\ ~ref.set
    /\ PredictInput(request) \in WatchedWaves
    /\ ref' = [set |-> TRUE, wave |-> PredictInput(request),
               seed |-> classifier, result |-> response]
    /\ UNCHANGED <<pc, request, response, log, classifier>>

\* The response is sent; nothing of the request is kept.
Respond ==
    /\ pc = "responded"
    /\ pc' = "idle"
    /\ request' = NoRequest
    /\ response' = NoResponse
    /\ log' = NoLog
    /\ UNCHANGED <<classifier, ref>>

\* The process is started again: the module is loaded and the head is
\* initialised at random once more.
Restart ==
    /\ pc = "idle"
    /\ classifier' \in Seeds \ {classifier}
    /\ UNCHANGED <<pc, request, response, log, ref>>

Next ==
    \/ \E r \in Requests : detect_voice(r)
    \/ Observe
    \/ Respond
    \/ Restart

Spec == Init /\ [][Next]_vars

---------------------------------------------------------------------------
(* Vocabulary of the properties. *)

\* The decoded clip of the request in flight.
Clip == request.payload.wave

\* The request in flight passed the API-key check and the schema validation.
Accepted ==
    /\ pc = "responded"
    /\ request.key = API_KEY
    /\ request.b64len >= 100

\* _apply_heuristics ran for the request in flight.
HeuristicsRan == pc = "responded" /\ "heuristics" \in log.stages

\* ... and its try block ran to the end.
Scored == HeuristicsRan /\ ~log.heuristics.error

\* The pitch samples of the clip strictly inside the 50-500 Hz band.
Voiced == SelectSeq(Clip.track, LAMBDA f : 50 < f /\ f < 500)

\* v is the standard deviation of the sequence s, in tenths, truncated.
IsStdOf(v, s) ==
    /\ v >= 0
    /\ (v * Len(s)) * (v * Len(s)) <= 100 * VarNum(s)
    /\ 100 * VarNum(s) < ((v + 1) * Len(s)) * ((v + 1) * Len(s))

\* The values the step function takes.
BaseSteps == {BaseScore(v) : v \in {0, 600, 800, 1000, 1200}}

\* The explanation was built by the try block of _generate_explanation.
Explained ==
    /\ pc = "responded"
    /\ "explain" \in log.stages
    /\ response.explanation.tier \notin {"none", "fallback_ai", "fallback_human"}

---------------------------------------------------------------------------
(* C1 *)

\* C1: whatever score s _apply_heuristics returned, the classification is
\* AI_GENERATED exactly when s > 0.5 (HUMAN at s = 0.5), and the confidence
\* is s for AI_GENERATED and 1 - s for HUMAN, rounded to two decimals.
C1_ClassificationAndConfidence ==
    (HeuristicsRan /\ response.status = 200) =>
        LET s == log.heuristics.final_score
            exact == IF s > 500 THEN s ELSE 1000 - s
            c == response.confidenceScore
        IN  /\ response.classification = "AI_GENERATED" <=> s > 500
            /\ response.classification = "HUMAN" <=> s <= 500
            /\ c % 10 = 0
            /\ c - exact <= 5
            /\ exact - c <= 5

\* A clip scored exactly 0.5 by the thresholds (0.45 plus one bonus).
C1_Witness ==
    /\ Scored
    /\ log.heuristics.final_score = 500
    /\ response.classification = "HUMAN"
    /\ response.confidenceScore = 500

---------------------------------------------------------------------------
(* C2 *)

\* C2: the confidence of every success response lies in [0,1], and once
\* predict has returned (scored or on the neutral path) the response model
\* never rejects the result: the request is answered 200.
C2_ConfidenceInRange ==
    pc = "responded" =>
        /\ response.status = 200 =>
              /\ 0 <= response.confidenceScore
              /\ response.confidenceScore <= 1000
        /\ "explain" \in log.stages => response.status = 200

\* The largest confidence the scorer produces: the top step plus both bonuses.
C2_Witness ==
    /\ Scored
    /\ response.status = 200
    /\ response.confidenceScore = 950
    /\ log.heuristics.adjustments = 100

---------------------------------------------------------------------------
(* C3 *)

\* C3 as claimed: with pitch-variation 0 the scorer reports AI_GENERATED
\* with the smallest base AI-probability among the steps that lead to
\* AI_GENERATED.
C3_LowestBand ==
    (Scored /\ log.heuristics.pitch_std = 0) =>
        /\ response.classification = "AI_GENERATED"
        /\ log.heuristics.ai_score > 500
        /\ \A b \in BaseSteps : b > 500 => log.heuristics.ai_score <= b

\* C3 as amended: with pitch-variation 0 the scorer reports AI_GENERATED
\* with the largest base AI-probability it defines, 0.85: the confidence is
\* at least 0.85 and the explanation is the strongest AI one (or the
\* fallback line).
C3_HighestBand ==
    (Scored /\ log.heuristics.pitch_std = 0) =>
        /\ response.classification = "AI_GENERATED"
        /\ log.heuristics.ai_score = 850
        /\ \A b \in BaseSteps : b <= log.heuristics.ai_score
        /\ response.confidenceScore >= 850
        /\ response.explanation.tier \in {"strong_ai", "fallback_ai"}

\* A clip without a single pitch sample in the band.
C3_Witness ==
    /\ Scored
    /\ Len(Voiced) = 0
    /\ log.heuristics.pitch_std = 0
    /\ response.status = 200

---------------------------------------------------------------------------
(* C4 *)

\* C4 as claimed: the bonus is between +0.10 and +0.20 whenever the centroid
\* is in [2500,3800] and/or the zero-crossing rate in [0.06,0.14], edges
\* included, 0 otherwise, and base plus bonus is clamped to [0,1].
C4_BonusTenToTwenty ==
    Scored =>
        LET inC == 2500 <= Clip.centroid /\ Clip.centroid <= 3800
            inZ == 60 <= Clip.zcr /\ Clip.zcr <= 140
            h == log.heuristics
        IN  /\ (inC \/ inZ) => (100 <= h.adjustments /\ h.adjustments <= 200)
            /\ ~(inC \/ inZ) => h.adjustments = 0
            /\ h.final_score = Max(0, Min(1000, h.ai_score + h.adjustments))

\* C4 as amended: the bonus is +0.05 for the centroid strictly inside
\* (2500,3800) plus +0.05 for the zero-crossing rate strictly inside
\* (0.06,0.14), so +0.05 to +0.10 when at least one holds and 0 when neither
\* does, and base plus bonus is clamped to [0,1].
C4_BonusFivePerIndicator ==
    Scored =>
        LET inC == 2500 < Clip.centroid /\ Clip.centroid < 3800
            inZ == 60 < Clip.zcr /\ Clip.zcr < 140
            h == log.heuristics
        IN  /\ h.adjustments = (IF inC THEN 50 ELSE 0) + (IF inZ THEN 50 ELSE 0)
            /\ h.final_score = Max(0, Min(1000, h.ai_score + h.adjustments))
            /\ 0 <= h.final_score /\ h.final_score <= 1000

\* A centroid on the edge of its window with the rate inside its own.
C4_Witness ==
    /\ Scored
    /\ Clip.centroid = 2500
    /\ Clip.zcr = 100
    /\ log.heuristics.adjustments = 50

---------------------------------------------------------------------------
(* C5 *)

\* C5: an accepted request whose audioBase64 is malformed base64 or does
\* not decode to an audio container is answered 400, never 500, and neither
\* feature extraction nor scoring runs for it.
C5_DecodeFailureIs400 ==
    (Accepted /\ request.payload.kind \in {"malformed_b64", "not_audio"}) =>
        /\ response.status = 400
        /\ log.stages \cap {"extract", "resample", "embed", "heuristics",
                            "explain"} = {}

\* Well-formed base64 of bytes that are no audio container.
C5_Witness ==
    /\ Accepted
    /\ request.payload.kind = "not_audio"
    /\ log.stages = {"decode"}
    /\ response.status = 400

---------------------------------------------------------------------------
(* C6 *)

\* C6 as claimed: a request without the API-key header and a request with
\* another key than the configured one (the body being valid) are both
\* answered 401, and only a request with the configured key reaches decoding
\* and scoring.
C6_MissingOrWrongKeyIs401 ==
    (pc = "responded" /\ request.b64len >= 100) =>
        /\ request.key # API_KEY => response.status = 401
        /\ log.stages # {} => request.key = API_KEY

---------------------------------------------------------------------------
(* C7 *)

\* C7: an exception raised by the feature computation of _apply_heuristics
\* is caught and scored exactly 0.5; predict still returns: HUMAN with
\* confidence 0.5 and an explanation, and the request succeeds.
C7_HeuristicsErrorIsNeutral ==
    (HeuristicsRan /\ Clip.fault \in {"heuristics", "heuristics_explanation"}) =>
        /\ log.heuristics.error
        /\ log.heuristics.final_score = 500
        /\ response.status = 200
        /\ response.classification = "HUMAN"
        /\ response.confidenceScore = 500
        /\ response.explanation.tier \in {"moderate_human", "fallback_human"}
        /\ response.explanation.pct = 50

\* The feature computation raises in the scorer and not in the explanation.
C7_Witness ==
    /\ HeuristicsRan
    /\ Clip.fault = "heuristics"
    /\ log.heuristics.error
    /\ response.explanation.tier = "moderate_human"

---------------------------------------------------------------------------
(* C8 *)

\* C8 as claimed: when a feature computation of extract_audio_features
\* raises, the request still completes with a success response.
C8_ExtractFailureStillSucceeds ==
    (Accepted /\ request.payload.kind = "audio"
              /\ Clip.fault \in {"extract_value", "extract_other"}) =>
        response.status = 200

---------------------------------------------------------------------------
(* C9 *)

\* C9: predict is deterministic and stateless: a result kept from an earlier
\* request, whatever was served in between and whichever initialisation of
\* the classifier head produced it, equals the result of every later request
\* with the same waveform and sample rate.
C9_SameClipSameResult ==
    (/\ pc = "responded"
     /\ "explain" \in log.stages
     /\ ref.set
     /\ PredictInput(request) = ref.wave) =>
        /\ response.status = ref.result.status
        /\ response.classification = ref.result.classification
        /\ response.confidenceScore = ref.result.confidenceScore
        /\ response.explanation = ref.result.explanation

\* The same clip scored again after a restart drew another head.
C9_Witness ==
    /\ pc = "responded"
    /\ "explain" \in log.stages
    /\ ref.set
    /\ ref.seed # classifier
    /\ PredictInput(request) = ref.wave
    /\ Clip.fault = "none"

---------------------------------------------------------------------------
(* C10 *)

\* The rule of C10 as claimed, for a computed pitch-variation v.
ClaimedPitchRule(v) ==
    /\ Len(Voiced) < 10 => v = 0
    /\ Len(Voiced) >= 10 => IsStdOf(v, Voiced)

\* The rule of the code.
CodePitchRule(v) ==
    /\ Len(Voiced) <= 10 => v = 0
    /\ Len(Voiced) > 10 => IsStdOf(v, Voiced)

\* C10 as claimed: pitch-variation is 0 with fewer than 10 surviving pitch
\* samples and their standard deviation with 10 or more, in the scorer and
\* in the explanation generator.
C10_TenOrMore ==
    /\ Scored => ClaimedPitchRule(log.heuristics.pitch_std)
    /\ Explained => ClaimedPitchRule(response.explanation.pitch)

\* C10 as amended: pitch-variation is 0 with 10 or fewer surviving pitch
\* samples and their standard deviation with 11 or more, in the scorer and
\* in the explanation generator.
C10_MoreThanTen ==
    /\ Scored => CodePitchRule(log.heuristics.pitch_std)
    /\ Explained => CodePitchRule(response.explanation.pitch)

\* Exactly ten surviving samples of two different pitches.
C10_Witness ==
    /\ Scored
    /\ Explained
    /\ Len(Voiced) = 10
    /\ \E i, j \in DOMAIN Voiced : Voiced[i] # Voiced[j]
    /\ log.heuristics.pitch_std = 0
    /\ response.explanation.pitch = 0

=============================================================================
